---- MODULE Spec2Model ----
(***************************************************************************)
(* Route-search engine of kilometer-kampioen: the traversal ledger         *)
(* (RouteIndicator), the transfer-window query (filter_timetable) and the  *)
(* two search strategies (GreedyDFS.dfs, ExploreSet.explore_state).        *)
(* Distances are integers (kilometres), times are integer minutes.         *)
(***************************************************************************)
EXTENDS Integers, Sequences, FiniteSets, TLC

VARIABLES
    branch,          \* one branch of legs: [route_indicator, route, credited,
                     \* current_station, last_call]
    algo,            \* the algorithm run_algo calls
    timetable_df,    \* the processed timetable, as read_timetable returns it
    pc,              \* where the run is
    arg,             \* the state passed to the next call of dfs
    stack,           \* the calls of dfs in progress: [current_state, top_transfers, i]
    priority_queue,  \* the heap of PriorityQueue: entries [key, state]
    best_state,      \* best_state of the algorithm
    best_distance,   \* best_distance of the algorithm
    iterations,      \* iterations of the algorithm
    saved,           \* what _save_best_route wrote, <<>> before
    max_generated,   \* history: the greatest total_distance of a state made so far
    greedy_best,     \* history: best_distance of GreedyDFS after each call of dfs
    fork,            \* the loop over the top transfers on objects: [states, lists,
                     \* indicators, tables, timetable_df, stack, new_state,
                     \* best_state, best_distance, best_view, saved, pc]
    builder          \* TimetableProcessor and its Dijkstra: [graph, distances,
                     \* intermediate_stations, unique_pairs, i, pc]

search_vars == <<algo, timetable_df, pc, arg, stack, priority_queue,
                 best_state, best_distance, iterations, saved, max_generated,
                 greedy_best>>

vars == <<branch, search_vars, builder, fork>>

(***************************************************************************)
(* The railway network the data files describe.                            *)
(***************************************************************************)

\* The stations of the timetable: a line A - B - C - D.
Stations == {"A", "B", "C", "D"}

\* Longest branch the ledger specification follows.
MaxLegs == 5

\* settings.py BaseSettings.TYPE_CONVERSION: {'Spr': 'S', 'Int': 'I'}
TYPE_CONVERSION == [Spr |-> "S", Int |-> "I"]

\* load_distances(): pairwise distances of neighbouring stations only.
\* A station maps to the record of its neighbours; absent pairs are absent.
station_distances ==
    [A |-> [B |-> 2],
     B |-> [A |-> 2, C |-> 3],
     C |-> [B |-> 3, D |-> 4],
     D |-> [C |-> 4]]

\* load_intermediate_stations(): for every pair that appears as a leg of the
\* timetable, the chain of stations between them (both ends included); a
\* pair of neighbours has the two-station path, as in the file's example
\* "Tb": ["Ht", "Tb"].
intermediate_stations ==
    [A |-> [B |-> <<"A", "B">>, C |-> <<"A", "B", "C">>,
            D |-> <<"A", "B", "C", "D">>],
     B |-> [A |-> <<"B", "A">>, C |-> <<"B", "C">>, D |-> <<"B", "C", "D">>],
     C |-> [A |-> <<"C", "B", "A">>, B |-> <<"C", "B">>, D |-> <<"C", "D">>],
     D |-> [A |-> <<"D", "C", "B", "A">>, B |-> <<"D", "C", "B">>,
            C |-> <<"D", "C">>]]

\* Whether two stations are neighbours in the distance file.
Adjacent(a, b) == b \in DOMAIN station_distances[a]

\* The 'Distance' column of the processed timetable: the distance of the
\* pair, which for a pair of non-neighbours is the length of its path.
RECURSIVE PathLength(_)
PathLength(path) ==
    IF Len(path) < 2 THEN 0
    ELSE station_distances[path[1]][path[2]] + PathLength(Tail(path))

Distance(a, b) == PathLength(intermediate_stations[a][b])

(***************************************************************************)
(* RouteIndicator: the traversal ledger.                                   *)
(***************************************************************************)

\* init_indicator_table: a stations x stations table of empty strings.
init_indicator_table == [p \in Stations \X Stations |-> <<>>]

\* The characters of a cell, as a set ('I' in types_driven).
Chars(types_driven) == {types_driven[i] : i \in 1..Len(types_driven)}

\* indicator_table.at[a, b] += short_train_type, in both directions.
AddMark(table, a, b, short_train_type) ==
    [table EXCEPT ![<<a, b>>] = Append(@, short_train_type),
                  ![<<b, a>>] = Append(@, short_train_type)]

\* The loop over zip(stations[:-1], stations[1:]) of update_indicator_table.
RECURSIVE MarkHops(_, _, _, _)
MarkHops(table, stations, i, short_train_type) ==
    IF i >= Len(stations) THEN table
    ELSE MarkHops(AddMark(table, stations[i], stations[i + 1], short_train_type),
                  stations, i + 1, short_train_type)

\* 'if train_type not in Settings.TYPE_CONVERSION'.
UnknownTrainType(train_type) == train_type \notin DOMAIN TYPE_CONVERSION

\* A table that gets the mark of the row before its type is looked at.
RaiseAfterMark(table, timetable_row) ==
    AddMark(table, timetable_row.Station, timetable_row.To, timetable_row.Type)

\* 'raise ValueError' of update_indicator_table: the table as the call got
\* it, the test being the first statement after the three reads of the row.
RaiseValueError(table, timetable_row) == table

\* RouteIndicator.update_indicator_table(timetable_row).
update_indicator_table(table, timetable_row) ==
    IF UnknownTrainType(timetable_row.Type)
    THEN RaiseValueError(table, timetable_row)
    ELSE
    LET from_station == timetable_row.Station
        to_station == timetable_row.To
        short_train_type == TYPE_CONVERSION[timetable_row.Type]
        direct == AddMark(table, from_station, to_station, short_train_type)
    IN  IF short_train_type = "I"
        THEN MarkHops(direct, intermediate_stations[from_station][to_station],
                      1, short_train_type)
        ELSE direct

\* A hop of an intercity with the test for an earlier intercity dropped.
HopCountsNoIntercityTest(types_driven) == Len(types_driven) <= 1

\* A hop of an intercity that counts only when nothing drove it yet.
HopCountsOnlyUndriven(types_driven) == Len(types_driven) = 0

\* The test of a sprinter section one off: a third traversal counts.
SprinterCountsThrice(types_driven) == Len(types_driven) < 3

\* 'if len(types_driven) < 2' of a sprinter section.
SprinterCounts(types_driven) == Len(types_driven) < 2

\* The two branches that add intermediate_distance for a hop of an intercity.
HopCounts(types_driven) ==
    \/ (Len(types_driven) = 1 /\ "I" \notin Chars(types_driven))
    \/ Len(types_driven) = 0

\* The loop over the hops of get_distance_counted.
RECURSIVE CountHops(_, _, _)
CountHops(table, stations, i) ==
    IF i >= Len(stations) THEN 0
    ELSE (IF HopCounts(table[<<stations[i], stations[i + 1]>>])
          THEN station_distances[stations[i]][stations[i + 1]]
          ELSE 0)
         + CountHops(table, stations, i + 1)

\* RouteIndicator.get_distance_counted(from_station, to_station, train_type, distance).
get_distance_counted(table, from_station, to_station, train_type, distance) ==
    IF UnknownTrainType(train_type) THEN "ValueError"
    ELSE
    IF TYPE_CONVERSION[train_type] = "S"
    THEN (IF SprinterCounts(table[<<from_station, to_station>>]) THEN distance ELSE 0)
    ELSE CountHops(table, intermediate_stations[from_station][to_station], 1)

(***************************************************************************)
(* The timetable and the transfer-window query.                            *)
(***************************************************************************)

\* settings.py VERSION_SETTINGS: 'min_transfer_time' and 'max_transfer_time'.
MIN_TRANSFER_TIME == 3
MAX_TRANSFER_TIME == 15

\* Parameters.START_TIME and Parameters.END_TIME in minutes (timestamp_to_int),
\* and Parameters.START_STATION; the day is scaled to a window of minutes.
START_TIME == 10
END_TIME == 45
START_STATION == "A"

\* The top rows _apply_score_function returns: head(2).
TOP_K == 2

\* One row of the timetable file, with the columns process_timetable adds:
\* Departure_Int, Arrival_Int, Duration (add_minute_stamps) and Distance
\* (add_distances).
Row(a, b, departure, arrival, type, id) ==
    [Station |-> a, To |-> b, Departure_Int |-> departure, Arrival_Int |-> arrival,
     Type |-> type, ID |-> id, Duration |-> arrival - departure,
     Distance |-> Distance(a, b)]

\* The rows a timetable file may hold, in file order.  Every row arrives
\* after it departs.  Service 2 runs A - B - C - D, service 6 runs C - B - A.
TimetableFile ==
    << Row("A", "B", 40, 44, "Spr", 9),
       Row("A", "B",  9, 12, "Int", 8),
       Row("A", "B", 12, 15, "Spr", 1),
       Row("A", "B", 14, 18, "Spr", 2),
       Row("A", "C", 16, 22, "Int", 3),
       Row("B", "C", 18, 23, "Spr", 2),
       Row("B", "A", 20, 24, "Spr", 4),
       Row("B", "C", 22, 26, "Int", 5),
       Row("C", "B", 26, 31, "Spr", 6),
       Row("C", "A", 27, 33, "Int", 7),
       Row("C", "D", 24, 30, "Spr", 2),
       Row("B", "A", 32, 36, "Spr", 6),
       Row("A", "B", 41, 46, "Spr", 10),
       Row("A", "C", 25, 45, "Int", 11) >>

\* The rows of the file that are always kept when a timetable is drawn.
AlwaysKept == {6}

\* The other rows, in the groups that are kept or left out together: the
\* two late trains from A, the two early trains from A, the two rows of
\* service 6, and every other row by itself.
OptionalRows ==
    {{1, 13}, {2, 3}, {4}, {5}, {7}, {8}, {9, 12}, {10}, {11}, {14}}

\* The rows of a sequence at the positions of a set, in order.
RECURSIVE Keep(_, _, _)
Keep(rows, positions, i) ==
    IF i > Len(rows) THEN <<>>
    ELSE (IF i \in positions THEN <<rows[i]>> ELSE <<>>) \o Keep(rows, positions, i + 1)

\* timetable_df.sort_values(by='Departure'): rows in departure order, rows of
\* one departure in the order they had.
RECURSIVE InsertByDeparture(_, _)
InsertByDeparture(sorted, row) ==
    IF sorted = <<>> THEN <<row>>
    ELSE IF sorted[Len(sorted)].Departure_Int <= row.Departure_Int
         THEN Append(sorted, row)
         ELSE Append(InsertByDeparture(SubSeq(sorted, 1, Len(sorted) - 1), row),
                     sorted[Len(sorted)])

RECURSIVE SortByDeparture(_)
SortByDeparture(rows) ==
    IF rows = <<>> THEN <<>>
    ELSE InsertByDeparture(SortByDeparture(SubSeq(rows, 1, Len(rows) - 1)),
                           rows[Len(rows)])

\* read_timetable: the rows of the file, sorted on 'Departure'.
read_timetable(rows) == SortByDeparture(rows)

\* A departure test without the same-train condition on an early departure.
DepartsInWindowAnyTrain(row, current_time, id_previous_train) ==
    /\ row.Departure_Int >= current_time
    /\ row.Departure_Int <= current_time + MAX_TRANSFER_TIME

\* A departure test without the upper end of the window.
DepartsInWindowNoMax(row, current_time, id_previous_train) ==
    \/ row.Departure_Int >= current_time + MIN_TRANSFER_TIME
    \/ (row.Departure_Int >= current_time /\ row.ID = id_previous_train)

\* The departure conditions of filter_timetable: at least min_time, or at
\* least current_time on the train just left; and at most max_time.
DepartsInWindow(row, current_time, id_previous_train) ==
    /\ \/ row.Departure_Int >= current_time + MIN_TRANSFER_TIME
       \/ (row.Departure_Int >= current_time /\ row.ID = id_previous_train)
    /\ row.Departure_Int <= current_time + MAX_TRANSFER_TIME

\* An arrival test that lets every row pass.
ArrivesAnyTime(row) == TRUE

\* The arrival condition of filter_timetable: 'Arrival_Int' <= end_time_int.
ArrivesInTime(row) == row.Arrival_Int <= END_TIME

\* A station test that lets every row pass.
DepartsFromAnywhere(row, station) == TRUE

\* The station condition of filter_timetable: index == station.
DepartsFrom(row, station) == row.Station = station

\* filter_timetable(timetable_df, station, current_time, id_previous_train):
\* a boolean mask over the rows, which keeps their order.
filter_timetable(df, station, current_time, id_previous_train) ==
    SelectSeq(df, LAMBDA row :
        /\ DepartsFrom(row, station)
        /\ DepartsInWindow(row, current_time, id_previous_train)
        /\ ArrivesInTime(row))

(***************************************************************************)
(* State, scoring and one step along a transfer.                           *)
(***************************************************************************)

\* None for a time, a train id and a station.
NoTime == -1
NoTrain == 0
NoStation == "None"

\* State(): no route, an indicator without a table, nothing else set.
State ==
    [total_distance |-> 0, route |-> <<>>, route_indicator |-> <<>>,
     current_time |-> NoTime, current_station |-> NoStation,
     id_previous_train |-> NoTrain]

\* State.set_initial_state: start time, start station, an empty table.
set_initial_state(state) ==
    [state EXCEPT !.current_time = START_TIME,
                  !.current_station = START_STATION,
                  !.route_indicator = init_indicator_table]

\* State.copy(): a state of the same values (values are never shared).
CopyState(state) == state

\* A waiting time counted from the start of the run.
WaitingTimeFromStart(row, state) == row.Departure_Int - START_TIME

\* add_duration_in_minutes('Current_Time', 'Departure_Int', 'Waiting_Time').
WaitingTime(row, state) == row.Departure_Int - state.current_time

\* Steps 1-3 of _apply_score_function for one row: Current_Time,
\* Waiting_Time, Distance_Counted and Score (a fraction, kept as num/den).
ScoreRow(row, state) ==
    LET waiting_time == WaitingTime(row, state)
        distance_counted ==
            get_distance_counted(state.route_indicator, row.Station, row.To,
                                 row.Type, row.Distance)
    IN  row @@ [Current_Time |-> state.current_time,
                Waiting_Time |-> waiting_time,
                Distance_Counted |-> distance_counted,
                Score |-> [num |-> distance_counted,
                           den |-> waiting_time + row.Duration]]

\* An order of the scores upside down.
ScoreLess(r, q) == r.Score.num * q.Score.den < q.Score.num * r.Score.den

\* Whether the score of row r is greater than that of row q (denominators
\* are positive: a row departs no earlier than now and arrives later).
ScoreGreater(r, q) == r.Score.num * q.Score.den > q.Score.num * r.Score.den

\* sort_values(by='Score', ascending=False).head(k): the first k rows of an
\* ordering by descending score; rows of equal score come in any order.
RECURSIVE TopRows(_, _, _)
TopRows(scored, positions, k) ==
    IF k = 0 \/ positions = {} THEN {<<>>}
    ELSE UNION {{<<scored[i]>> \o rest :
                    rest \in TopRows(scored, positions \ {i}, k - 1)} :
                i \in {j \in positions :
                         \A m \in positions : ~ScoreGreater(scored[m], scored[j])}}

\* _apply_score_function(transfer_options, state): the results it may return.
apply_score_function(transfer_options, state) ==
    TopRows([i \in 1..Len(transfer_options) |-> ScoreRow(transfer_options[i], state)],
            1..Len(transfer_options), TOP_K)

\* A new state that gets the whole distance of the row.
take_transfer_full_distance(current_state, row) ==
    [total_distance |-> current_state.total_distance + row.Distance,
     route |-> Append(current_state.route, row),
     route_indicator |-> update_indicator_table(current_state.route_indicator, row),
     current_time |-> row.Arrival_Int,
     current_station |-> row.To,
     id_previous_train |-> row.ID]

\* Steps 4a and 4b of the loop over the top transfers: a copy of the
\* current state, moved along the row.
take_transfer(current_state, row) ==
    LET new_state == CopyState(current_state)
    IN  [total_distance |-> new_state.total_distance + row.Distance_Counted,
         route |-> Append(new_state.route, row),
         route_indicator |-> update_indicator_table(new_state.route_indicator, row),
         current_time |-> row.Arrival_Int,
         current_station |-> row.To,
         id_previous_train |-> row.ID]

\* The greater of two numbers.
Max(a, b) == IF a >= b THEN a ELSE b

\* A best state that is also replaced by a state of equal distance.
update_best_on_tie(best, new_state) ==
    IF new_state.total_distance >= best.best_distance
    THEN [best_distance |-> new_state.total_distance,
          best_state |-> new_state]
    ELSE best

\* A best state that is replaced by every new state.
update_best_always(best, new_state) ==
    [best_distance |-> new_state.total_distance, best_state |-> new_state]

\* Step 4c: the best state and distance after a new state was made.
update_best(best, new_state) ==
    IF new_state.total_distance > best.best_distance
    THEN [best_distance |-> new_state.total_distance,
          best_state |-> CopyState(new_state)]
    ELSE best

(***************************************************************************)
(* PriorityQueue: heapq on a list of pairs (-total_distance, state).       *)
(* Positions are those of heapq plus one.                                  *)
(***************************************************************************)

\* x < y for two pairs: the keys decide when they differ; for equal keys the
\* states are compared, and State defines no order: a TypeError ("err").
CompareEntries(x, y) ==
    IF x.key = y.key THEN "err"
    ELSE IF x.key < y.key THEN "lt" ELSE "ge"

\* heapq._siftdown(heap, startpos, pos), newitem being heap[pos].
RECURSIVE siftdown(_, _, _, _)
siftdown(heap, startpos, pos, newitem) ==
    IF pos > startpos
    THEN LET parentpos == pos \div 2
             parent == heap[parentpos]
             c == CompareEntries(newitem, parent)
         IN  IF c = "err" THEN [heap |-> heap, error |-> TRUE]
             ELSE IF c = "lt"
                  THEN siftdown([heap EXCEPT ![pos] = parent], startpos,
                                parentpos, newitem)
                  ELSE [heap |-> [heap EXCEPT ![pos] = newitem], error |-> FALSE]
    ELSE [heap |-> [heap EXCEPT ![pos] = newitem], error |-> FALSE]

\* heapq._siftup(heap, pos), newitem being heap[pos] at the call.
RECURSIVE siftup(_, _, _, _)
siftup(heap, startpos, pos, newitem) ==
    LET endpos == Len(heap)
        childpos == 2 * pos
        rightpos == childpos + 1
    IN  IF childpos <= endpos
        THEN LET c == IF rightpos <= endpos
                      THEN CompareEntries(heap[childpos], heap[rightpos])
                      ELSE "lt"
                 smaller == IF c = "lt" THEN childpos ELSE rightpos
             IN  IF c = "err" THEN [heap |-> heap, error |-> TRUE]
                 ELSE siftup([heap EXCEPT ![pos] = heap[smaller]], startpos,
                             smaller, newitem)
        ELSE siftdown([heap EXCEPT ![pos] = newitem], startpos, pos, newitem)

\* PriorityQueue.put(item): heappush.
heappush(heap, item) == siftdown(Append(heap, item), 1, Len(heap) + 1, item)

\* PriorityQueue.get(): heappop, on a heap that is not empty.
heappop(heap) ==
    LET lastelt == heap[Len(heap)]
        rest == SubSeq(heap, 1, Len(heap) - 1)
    IN  IF rest = <<>>
        THEN [item |-> lastelt, heap |-> <<>>, error |-> FALSE]
        ELSE LET sifted == siftup([rest EXCEPT ![1] = lastelt], 1, 1, lastelt)
             IN  [item |-> rest[1], heap |-> sifted.heap, error |-> sifted.error]

(***************************************************************************)
(* The distance graph builder: Dijkstra and enhance_distances_dict.        *)
(* A dictionary of dictionaries d[a][b] is a function on the pairs <<a, b>>*)
(* it holds; its keys are the first members.                               *)
(***************************************************************************)

\* numpy.inf, above every sum of distances of the graphs drawn.
Inf == 99

\* inf + d = inf.
Plus(a, d) == IF a = Inf THEN Inf ELSE a + d

\* The keys of a dictionary of dictionaries.
Keys(d) == {p[1] : p \in DOMAIN d}

\* The order of the keys of the distances file.
NodeOrder == <<"A", "B", "C", "D">>

\* Dijkstra.__init__: nodes = list(graph).
nodes(graph) == SelectSeq(NodeOrder, LAMBDA n : n \in Keys(graph))

\* _init_data_structures(start).
init_data_structures(graph, start) ==
    [dists |-> [n \in Keys(graph) \cup {start} |-> IF n = start THEN 0 ELSE Inf],
     parents |-> [n \in Keys(graph) |-> NoStation],
     queue |-> nodes(graph)]

\* A queue that hands out its nodes in their order, whatever their distance.
get_first_in_queue(queue, dists) ==
    [node |-> Head(queue), queue |-> Tail(queue)]

\* _get_min_dist: the first node of the queue with the least distance.
get_min_dist(queue, dists) ==
    LET least == CHOOSE i \in 1..Len(queue) :
                     /\ \A j \in 1..Len(queue) : dists[queue[i]] <= dists[queue[j]]
                     /\ \A j \in 1..(i - 1) : dists[queue[j]] > dists[queue[i]]
    IN  [node |-> queue[least],
         queue |-> SubSeq(queue, 1, least - 1) \o SubSeq(queue, least + 1, Len(queue))]

\* The test of construct_paths: new_dist_current < dists[neighbor].
Shorter(new_dist, old_dist) == new_dist < old_dist

\* construct_paths(start), from the data structures of a start: the loop
\* over the queue.
RECURSIVE construct_loop(_, _)
construct_loop(graph, ds) ==
    IF ds.queue = <<>> THEN ds
    ELSE LET got == get_min_dist(ds.queue, ds.dists)
             current == got.node
             neighbors == {n \in Keys(graph) : <<current, n>> \in DOMAIN graph}
             improved == {n \in neighbors :
                             Shorter(Plus(ds.dists[current], graph[<<current, n>>]),
                                     ds.dists[n])}
         IN  construct_loop(graph,
                 [dists |-> [n \in DOMAIN ds.dists |->
                                IF n \in improved
                                THEN Plus(ds.dists[current], graph[<<current, n>>])
                                ELSE ds.dists[n]],
                  parents |-> [n \in DOMAIN ds.parents |->
                                  IF n \in improved THEN current ELSE ds.parents[n]],
                  queue |-> got.queue])

construct_paths(graph, start) ==
    construct_loop(graph, init_data_structures(graph, start))

\* The loop of _find_shortest_path: the chain of parents up from a node.
RECURSIVE parent_chain(_, _)
parent_chain(parents, parent) ==
    IF parent \in DOMAIN parents
    THEN Append(parent_chain(parents, parents[parent]), parent)
    ELSE <<>>

\* _find_shortest_path(goal).
find_shortest_path(ds, start, goal) ==
    IF goal \in DOMAIN ds.parents \/ start = goal
    THEN parent_chain(ds.parents, goal)
    ELSE <<>>

\* search(goal): the path and dists[goal]; a KeyError when the goal is no
\* key of dists.
search(ds, start, goal) ==
    [path |-> find_shortest_path(ds, start, goal),
     distance |-> IF goal \in DOMAIN ds.dists THEN ds.dists[goal] ELSE Inf,
     error |-> goal \notin DOMAIN ds.dists]

\* A path handed on in the order it has.
SameOrder(path) == path

\* path[::-1].
Reverse(path) == [i \in 1..Len(path) |-> path[Len(path) + 1 - i]]

\* A path table that keeps the path it was given last.
update_intermediate_stations_latest(table, from_station, to_station, path) ==
    (<<from_station, to_station>> :> path) @@ table

\* _update_intermediate_stations(from_station, to_station, path).
update_intermediate_stations(table, from_station, to_station, path) ==
    IF <<from_station, to_station>> \notin DOMAIN table
    THEN (<<from_station, to_station>> :> path) @@ table
    ELSE IF Len(path) > Len(table[<<from_station, to_station>>])
         THEN [table EXCEPT ![<<from_station, to_station>>] = path]
         ELSE table

\* The test of enhance_distances_dict on what search returned:
\* path and distance > 0.
Found(path, distance) == path /= <<>> /\ distance > 0

\* A Dijkstra instance that follows the dictionary the loop writes to.
DijkstraGraphSoFar(b) == b.distances

\* The graph of the Dijkstra instance: the deepcopy of the distances made
\* once, before the loop.
DijkstraGraph(b) == b.graph

\* The body of the loop of enhance_distances_dict for one pair, on the
\* dictionaries b.distances and b.intermediate_stations with the Dijkstra
\* instance on b.graph.
enhance_pair(b, from_station, to_station) ==
    IF from_station \notin Keys(b.distances)
    THEN [b EXCEPT !.pc = "KeyError"]
    ELSE IF <<from_station, to_station>> \notin DOMAIN b.distances
    THEN LET ds == construct_paths(DijkstraGraph(b), from_station)
             found == search(ds, from_station, to_station)
             path == found.path
             distances ==
                 IF Found(path, found.distance)
                 THEN (<<from_station, to_station>> :> found.distance)
                          @@ (<<to_station, from_station>> :> found.distance)
                          @@ b.distances
                 ELSE b.distances
         IN  IF found.error
             THEN [b EXCEPT !.pc = "KeyError"]
             ELSE [b EXCEPT
                     !.distances = distances,
                     !.intermediate_stations =
                         update_intermediate_stations(
                             update_intermediate_stations(@, from_station,
                                                          to_station, path),
                             to_station, from_station, Reverse(path))]
    ELSE LET path == <<from_station, to_station>>
         IN  [b EXCEPT
                 !.intermediate_stations =
                     update_intermediate_stations(
                         update_intermediate_stations(@, from_station,
                                                      to_station, path),
                         to_station, from_station, Reverse(path))]

\* The builder while no enhancement runs.
BuilderIdle ==
    [graph |-> <<>>, distances |-> <<>>, intermediate_stations |-> <<>>,
     unique_pairs |-> <<>>, i |-> 1, pc |-> "idle"]

\* The object stores while no loop runs on them.
ForkIdle ==
    [states |-> <<>>, lists |-> <<>>, indicators |-> <<>>, tables |-> <<>>,
     timetable_df |-> <<>>, stack |-> <<>>, new_state |-> 0, best_state |-> 0,
     best_distance |-> 0, best_view |-> <<>>, saved |-> <<>>, pc |-> "idle"]

(***************************************************************************)
(* Sections, and what a leg does on them (bookkeeping for the properties). *)
(***************************************************************************)

\* The section between two neighbouring stations, as an unordered pair.
Sections == {{a, b} : a \in Stations, b \in Stations} \ {{s} : s \in Stations}

AdjacentSections ==
    UNION {{{a, b} : b \in DOMAIN station_distances[a]} : a \in Stations}

\* The hops of a path, as sections.
HopsOf(path) == {{path[i], path[i + 1]} : i \in 1..(Len(path) - 1)}

\* The sections under a leg: its own for a sprinter, the hops of its
\* intermediate path for an intercity.
Underlying(row) ==
    IF TYPE_CONVERSION[row.Type] = "S" THEN {{row.Station, row.To}}
    ELSE HopsOf(intermediate_stations[row.Station][row.To])

\* The sections for which get_distance_counted counts kilometres of a leg.
CreditedSections(table, row) ==
    IF TYPE_CONVERSION[row.Type] = "S"
    THEN (IF SprinterCounts(table[<<row.Station, row.To>>])
          THEN {{row.Station, row.To}} ELSE {})
    ELSE LET stations == intermediate_stations[row.Station][row.To]
         IN  {{stations[i], stations[i + 1]} : i \in
                 {j \in 1..(Len(stations) - 1) :
                     HopCounts(table[<<stations[j], stations[j + 1]>>])}}

(***************************************************************************)
(* A branch: legs taken one after the other, each scored, then recorded.   *)
(***************************************************************************)

\* The legs a timetable on this network offers: sprinters between
\* neighbours, intercities between neighbours and over several hops.
Leg(a, b, t) == [Station |-> a, To |-> b, Type |-> t, Distance |-> Distance(a, b)]

SprinterPairs == {p \in Stations \X Stations : Adjacent(p[1], p[2])}

IntercityPairs ==
    {<<"A", "B">>, <<"B", "A">>, <<"A", "C">>, <<"C", "A">>,
     <<"B", "D">>, <<"D", "B">>, <<"A", "D">>, <<"D", "A">>}

Legs == {Leg(p[1], p[2], "Spr") : p \in SprinterPairs}
        \cup {Leg(p[1], p[2], "Int") : p \in IntercityPairs}

\* The search variables while only a branch is followed.
SearchIdle ==
    /\ algo = "none"
    /\ timetable_df = <<>>
    /\ pc = "idle"
    /\ arg = State
    /\ stack = <<>>
    /\ priority_queue = <<>>
    /\ best_state = State
    /\ best_distance = 0
    /\ iterations = 0
    /\ saved = <<>>
    /\ max_generated = 0
    /\ greedy_best = <<>>

\* No call of the ledger with a row of an unknown type was made.
NoCall == [op |-> "none", Type |-> "none", result |-> "none"]

InitLedger ==
    /\ SearchIdle
    /\ builder = BuilderIdle
    /\ fork = ForkIdle
    /\ branch \in {[route_indicator |-> init_indicator_table,
                    route |-> <<>>,
                    credited |-> <<>>,
                    current_station |-> s,
                    last_call |-> NoCall] : s \in Stations}

\* Step 4b of the search loop on one branch: the row was scored against the
\* ledger (Distance_Counted), then the ledger records it.
TakeLeg(row) ==
    /\ Len(branch.route) < MaxLegs
    /\ branch.last_call.result /= "ValueError"
    /\ row.Station = branch.current_station
    /\ LET counted == get_distance_counted(branch.route_indicator, row.Station,
                                           row.To, row.Type, row.Distance)
           scored == [Station |-> row.Station, To |-> row.To, Type |-> row.Type,
                      Distance |-> row.Distance, Distance_Counted |-> counted]
       IN  branch' =
             [route_indicator |-> update_indicator_table(branch.route_indicator, row),
              route |-> Append(branch.route, scored),
              credited |-> Append(branch.credited,
                                  CreditedSections(branch.route_indicator, row)),
              current_station |-> row.To,
              last_call |-> branch.last_call]
    /\ UNCHANGED <<search_vars, builder, fork>>

NextLedger == \E row \in Legs : TakeLeg(row)

SpecLedger == InitLedger /\ [][NextLedger]_vars

\* A service class the settings do not know.
UnknownType == "Ice"

\* Rows of a timetable whose 'Type' is no key of TYPE_CONVERSION.
UnknownLegs ==
    {[Station |-> p[1], To |-> p[2], Type |-> UnknownType,
      Distance |-> Distance(p[1], p[2])] : p \in IntercityPairs}

\* update_indicator_table called with a row of an unknown type: the
\* ValueError ends the run.
record_unknown_type(row) ==
    /\ branch.last_call.result /= "ValueError"
    /\ row.Station = branch.current_station
    /\ branch' = [branch EXCEPT
           !.route_indicator = update_indicator_table(@, row),
           !.last_call = [op |-> "update_indicator_table", Type |-> row.Type,
                          result |-> IF UnknownTrainType(row.Type)
                                     THEN "ValueError" ELSE "None"]]
    /\ UNCHANGED <<search_vars, builder, fork>>

\* get_distance_counted called with an unknown type: the ValueError ends
\* the run.
count_unknown_type(row) ==
    /\ branch.last_call.result /= "ValueError"
    /\ row.Station = branch.current_station
    /\ branch' = [branch EXCEPT
           !.last_call = [op |-> "get_distance_counted", Type |-> row.Type,
                          result |-> get_distance_counted(
                                         branch.route_indicator, row.Station,
                                         row.To, row.Type, row.Distance)]]
    /\ UNCHANGED <<search_vars, builder, fork>>

NextLedgerCalls ==
    \/ \E row \in Legs : TakeLeg(row)
    \/ \E row \in UnknownLegs : record_unknown_type(row)
    \/ \E row \in UnknownLegs : count_unknown_type(row)

SpecLedgerCalls == InitLedger /\ [][NextLedgerCalls]_vars

(***************************************************************************)
(* The two search algorithms.                                              *)
(***************************************************************************)

\* The timetables a run may read: the rows of the file that are always
\* kept and any of the others.
Timetables ==
    {read_timetable(Keep(TimetableFile, AlwaysKept \cup UNION k, 1)) :
        k \in SUBSET OptionalRows}

\* The branch variable while a search runs.
BranchIdle ==
    [route_indicator |-> init_indicator_table, route |-> <<>>,
     credited |-> <<>>, current_station |-> START_STATION,
     last_call |-> NoCall]

\* run_algo: GreedyDFS(...) or ExploreSet(...), the initial State, and the
\* first call, of dfs or of explore_state.
Init ==
    /\ branch = BranchIdle
    /\ builder = BuilderIdle
    /\ fork = ForkIdle
    /\ algo \in {"greedy_dfs", "explore_set"}
    /\ timetable_df \in Timetables
    /\ pc = IF algo = "greedy_dfs" THEN "dfs" ELSE "explore"
    /\ arg = set_initial_state(State)
    /\ stack = <<>>
    /\ priority_queue = <<>>
    /\ best_state = State
    /\ best_distance = 0
    /\ iterations = 0
    /\ saved = <<>>
    /\ max_generated = 0
    /\ greedy_best = <<>>

\* GreedyDFS.dfs(current_state) up to its loop: count the call, filter the
\* timetable, return when nothing is left, else score the options.
dfs ==
    /\ pc = "dfs"
    /\ iterations' = iterations + 1
    /\ LET transfer_options ==
               filter_timetable(timetable_df, arg.current_station,
                                arg.current_time, arg.id_previous_train)
       IN  IF transfer_options = <<>>
           THEN stack' = stack
           ELSE \E top_transfers \in apply_score_function(transfer_options, arg) :
                    stack' = Append(stack, [current_state |-> arg,
                                            top_transfers |-> top_transfers,
                                            i |-> 1])
    /\ pc' = "loop"
    /\ greedy_best' = IF iterations = 0 THEN greedy_best
                      ELSE Append(greedy_best, best_distance)
    /\ UNCHANGED <<fork, builder, branch, algo, timetable_df, arg, priority_queue,
                   best_state, best_distance, saved, max_generated>>

\* One turn of the loop of dfs: the new state of the next top transfer, the
\* best state, and the call of dfs on the new state.
dfs_loop ==
    /\ pc = "loop"
    /\ stack /= <<>>
    /\ LET frame == stack[Len(stack)]
       IN  /\ frame.i <= Len(frame.top_transfers)
           /\ LET new_state == take_transfer(frame.current_state,
                                             frame.top_transfers[frame.i])
                  best == update_best([best_distance |-> best_distance,
                                       best_state |-> best_state], new_state)
              IN  /\ best_distance' = best.best_distance
                  /\ best_state' = best.best_state
                  /\ max_generated' = Max(max_generated, new_state.total_distance)
                  /\ arg' = new_state
           /\ stack' = [stack EXCEPT ![Len(stack)].i = frame.i + 1]
    /\ pc' = "dfs"
    /\ UNCHANGED <<fork, builder, branch, algo, timetable_df, priority_queue, iterations, saved,
                   greedy_best>>

\* The loop of dfs is through: the call returns to its caller.
dfs_return ==
    /\ pc = "loop"
    /\ stack /= <<>>
    /\ stack[Len(stack)].i > Len(stack[Len(stack)].top_transfers)
    /\ stack' = SubSeq(stack, 1, Len(stack) - 1)
    /\ UNCHANGED <<fork, builder, branch, algo, timetable_df, pc, arg, priority_queue,
                   best_state, best_distance, iterations, saved, max_generated,
                   greedy_best>>

\* _save_best_route, after the first call of dfs returned or after the
\* queue ran empty.
save_best_route ==
    /\ \/ (pc = "loop" /\ stack = <<>>)
       \/ (pc = "queue" /\ priority_queue = <<>>)
    /\ saved' = <<[best_distance |-> best_distance, route |-> best_state.route]>>
    /\ pc' = "done"
    /\ greedy_best' = IF algo = "greedy_dfs"
                      THEN Append(greedy_best, best_distance)
                      ELSE greedy_best
    /\ UNCHANGED <<fork, builder, branch, algo, timetable_df, arg, stack, priority_queue,
                   best_state, best_distance, iterations, max_generated>>

\* The stations that have a timetable of their own in ExploreSet.timetables.
TimetableStations == {timetable_df[i].Station : i \in 1..Len(timetable_df)}

\* The loop of explore_state over the top transfers: each new state is put
\* on the queue, then the best state is updated.  A put that fails ends it.
RECURSIVE explore_loop(_, _, _, _)
explore_loop(current_state, top_transfers, i, acc) ==
    IF acc.error \/ i > Len(top_transfers) THEN acc
    ELSE LET new_state == take_transfer(current_state, top_transfers[i])
             put == heappush(acc.priority_queue,
                             [key |-> 0 - new_state.total_distance,
                              state |-> new_state])
         IN  IF put.error
             THEN [acc EXCEPT !.error = TRUE,
                              !.generated = Max(@, new_state.total_distance)]
             ELSE explore_loop(current_state, top_transfers, i + 1,
                      [priority_queue |-> put.heap,
                       best |-> update_best(acc.best, new_state),
                       generated |-> Max(acc.generated, new_state.total_distance),
                       error |-> FALSE])

\* ExploreSet.explore_state(current_state) on a queue: the outcomes it may
\* have, as [priority_queue, best, error].
explore_state(current_state, queue) ==
    LET before == [priority_queue |-> queue,
                   best |-> [best_distance |-> best_distance,
                             best_state |-> best_state],
                   generated |-> max_generated,
                   error |-> FALSE]
    IN  IF current_state.current_station \notin TimetableStations
        THEN {[before EXCEPT !.error = TRUE]}
        ELSE LET transfer_options ==
                     filter_timetable(timetable_df, current_state.current_station,
                                      current_state.current_time,
                                      current_state.id_previous_train)
             IN  IF transfer_options = <<>> THEN {before}
                 ELSE {explore_loop(current_state, top_transfers, 1, before) :
                          top_transfers \in
                              apply_score_function(transfer_options, current_state)}

\* The effect of one call of explore_state on the variables.
Explored(outcome) ==
    /\ iterations' = iterations + 1
    /\ priority_queue' = outcome.priority_queue
    /\ best_distance' = outcome.best.best_distance
    /\ best_state' = outcome.best.best_state
    /\ max_generated' = outcome.generated
    /\ pc' = IF outcome.error THEN "crashed" ELSE "queue"

\* run_explore_set: explore_state(initial_state).
explore_initial ==
    /\ pc = "explore"
    /\ \E outcome \in explore_state(arg, priority_queue) : Explored(outcome)
    /\ UNCHANGED <<fork, builder, branch, algo, timetable_df, arg, stack, saved, greedy_best>>

\* One turn of the loop of run_explore_set: get the best state of the queue
\* and explore it.
explore_next ==
    /\ pc = "queue"
    /\ priority_queue /= <<>>
    /\ LET got == heappop(priority_queue)
       IN  IF got.error
           THEN /\ pc' = "crashed"
                /\ UNCHANGED <<arg, priority_queue, best_state, best_distance,
                               iterations, max_generated>>
           ELSE /\ arg' = got.item.state
                /\ \E outcome \in explore_state(got.item.state, got.heap) :
                       Explored(outcome)
    /\ UNCHANGED <<fork, builder, branch, algo, timetable_df, stack, saved, greedy_best>>

\* _handle_interrupt while no call of explore_state is running: SIGINT is
\* handled in the main thread at whatever point the run has reached; the
\* handler saves the best route and exits.
handle_interrupt ==
    /\ pc \in {"dfs", "loop", "explore", "queue"}
    /\ saved' = <<[best_distance |-> best_distance, route |-> best_state.route]>>
    /\ pc' = "interrupted"
    /\ UNCHANGED <<fork, builder, branch, algo, timetable_df, arg, stack, priority_queue,
                   best_state, best_distance, iterations, max_generated,
                   greedy_best>>

\* _handle_interrupt inside the loop of explore_state, after some of the top
\* transfers of the explored state were put on the queue and before the
\* others are.
handle_interrupt_in_explore ==
    /\ \/ pc = "explore"
       \/ (pc = "queue" /\ priority_queue /= <<>>)
    /\ LET got == IF pc = "explore"
                  THEN [item |-> [state |-> arg], heap |-> priority_queue,
                        error |-> FALSE]
                  ELSE heappop(priority_queue)
           current_state == got.item.state
           before == [priority_queue |-> got.heap,
                      best |-> [best_distance |-> best_distance,
                                best_state |-> best_state],
                      generated |-> max_generated,
                      error |-> FALSE]
       IN  /\ ~got.error
           /\ current_state.current_station \in TimetableStations
           /\ LET transfer_options == 
                      filter_timetable(timetable_df, current_state.current_station,
                                       current_state.current_time,
                                       current_state.id_previous_train)
              IN  \E top_transfers \in
                         apply_score_function(transfer_options, current_state) :
                    \E done \in 1..(Len(top_transfers) - 1) :
                      LET outcome == explore_loop(current_state,
                                         SubSeq(top_transfers, 1, done), 1, before)
                      IN  /\ ~outcome.error
                          /\ arg' = current_state
                          /\ iterations' = iterations + 1
                          /\ priority_queue' = outcome.priority_queue
                          /\ best_distance' = outcome.best.best_distance
                          /\ best_state' = outcome.best.best_state
                          /\ max_generated' = outcome.generated
                          /\ saved' = <<[best_distance |-> outcome.best.best_distance,
                                         route |-> outcome.best.best_state.route]>>
    /\ pc' = "interrupted"
    /\ UNCHANGED <<fork, builder, branch, algo, timetable_df, stack, greedy_best>>

Next ==
    \/ dfs
    \/ dfs_loop
    \/ dfs_return
    \/ explore_initial
    \/ explore_next
    \/ save_best_route
    \/ handle_interrupt
    \/ handle_interrupt_in_explore

Spec == Init /\ [][Next]_vars

\* A step of the run itself: the interpreter goes on with the algorithm as
\* long as it can; an interrupt may or may not come.
Run ==
    \/ dfs
    \/ dfs_loop
    \/ dfs_return
    \/ explore_initial
    \/ explore_next
    \/ save_best_route

\* The rows besides those always kept that a timetable of a run followed
\* to its end may hold.
LiveOptional == {{2, 3}, {4}, {5}, {8}, {9, 12}, {11}, {14}}

LiveTimetables ==
    {read_timetable(Keep(TimetableFile, AlwaysKept \cup UNION k, 1)) :
        k \in SUBSET LiveOptional}

InitLive == Init /\ timetable_df \in LiveTimetables

SpecLive == InitLive /\ [][Next]_vars /\ WF_vars(Run)

(***************************************************************************)
(* The two algorithms one after the other on one timetable: GreedyDFS      *)
(* first, whose best distance after each call of dfs is kept, then         *)
(* ExploreSet from the same initial state.                                 *)
(***************************************************************************)

InitCompare == Init /\ algo = "greedy_dfs"

\* run_explore_set on the timetable GreedyDFS ran on, after it finished.
run_explore_set_after ==
    /\ algo = "greedy_dfs"
    /\ pc = "done"
    /\ algo' = "explore_set"
    /\ pc' = "explore"
    /\ arg' = set_initial_state(State)
    /\ stack' = <<>>
    /\ priority_queue' = <<>>
    /\ best_state' = State
    /\ best_distance' = 0
    /\ iterations' = 0
    /\ saved' = <<>>
    /\ max_generated' = 0
    /\ UNCHANGED <<fork, builder, branch, timetable_df, greedy_best>>

NextCompare == Next \/ run_explore_set_after

SpecCompare == InitCompare /\ [][NextCompare]_vars

(***************************************************************************)
(* The enhancement pass of the distance graph builder.                     *)
(***************************************************************************)

\* The sections of the distances file drawn from, with their lengths.
EdgeLength ==
    (<<"A", "B">> :> 1) @@ (<<"B", "C">> :> 1) @@ (<<"C", "D">> :> 1)
        @@ (<<"A", "C">> :> 3) @@ (<<"B", "D">> :> 2) @@ (<<"A", "D">> :> 1)

\* _process_distances on a file holding the sections E in both directions.
Graph(E) ==
    [p \in E \cup {<<q[2], q[1]>> : q \in E} |->
        IF p \in DOMAIN EdgeLength THEN EdgeLength[p]
        ELSE EdgeLength[<<p[2], p[1]>>]]

Graphs == {Graph(E) : E \in SUBSET DOMAIN EdgeLength}

\* The stations the timetables drawn run between.
TimetableEnds == {"A", "C", "D"}

MaxPairs == 2

\* The (Station, To) pairs of a timetable.
PairPool == {p \in TimetableEnds \X TimetableEnds : p[1] /= p[2]}

\* unique_pairs: the pairs of a timetable without duplicates, in the order
\* of their first rows.
UniquePairs ==
    {ps \in UNION {[1..n -> PairPool] : n \in 0..MaxPairs} :
        \A i, j \in DOMAIN ps : i /= j => ps[i] /= ps[j]}

\* TimetableProcessor.__init__ and the start of enhance_distances_dict.
InitBuilder ==
    /\ branch = BranchIdle
    /\ SearchIdle
    /\ fork = ForkIdle
    /\ builder \in {[graph |-> g, distances |-> g,
                     intermediate_stations |-> <<>>,
                     unique_pairs |-> ps, i |-> 1, pc |-> "enhance"] :
                        g \in Graphs, ps \in UniquePairs}

\* One pass of the loop of enhance_distances_dict.
enhance_distances_dict ==
    /\ builder.pc = "enhance"
    /\ builder.i <= Len(builder.unique_pairs)
    /\ builder' = [enhance_pair(builder, builder.unique_pairs[builder.i][1],
                                builder.unique_pairs[builder.i][2])
                       EXCEPT !.i = @ + 1]
    /\ UNCHANGED <<branch, search_vars, fork>>

\* add_distances, once the loop is over: the lookup of every pair of the
\* timetable.
add_distances ==
    /\ builder.pc = "enhance"
    /\ builder.i > Len(builder.unique_pairs)
    /\ builder' = [builder EXCEPT !.pc =
                      IF \A k \in DOMAIN builder.unique_pairs :
                             builder.unique_pairs[k] \in DOMAIN builder.distances
                      THEN "done" ELSE "KeyError in add_distances"]
    /\ UNCHANGED <<branch, search_vars, fork>>

NextBuilder == enhance_distances_dict \/ add_distances

SpecBuilder == InitBuilder /\ [][NextBuilder]_vars

(***************************************************************************)
(* The loop over the top transfers on objects: states, lists, indicators   *)
(* and tables live in stores and are reached through references, so that   *)
(* a write through one reference is seen through every other reference to  *)
(* the same object.                                                        *)
(***************************************************************************)

\* The values of the state a reference leads to: its fields, the items of
\* its route and the cells of the table of its indicator.
View(f, ref) ==
    LET s == f.states[ref]
    IN  [total_distance |-> s.total_distance,
         route |-> f.lists[s.route],
         route_indicator |-> f.tables[f.indicators[s.route_indicator].indicator_table],
         current_time |-> s.current_time,
         current_station |-> s.current_station,
         id_previous_train |-> s.id_previous_train]

\* A new indicator that keeps the table of the old one.
share_indicator_table(f, table) == [tables |-> f.tables, ref |-> table]

\* self.indicator_table.copy(): a new table with the cells of the old one.
dataframe_copy(f, table) ==
    [tables |-> Append(f.tables, f.tables[table]), ref |-> Len(f.tables) + 1]

\* RouteIndicator.copy(): a new indicator with a copy of the table.
route_indicator_copy(f, indicator) ==
    LET copied == dataframe_copy(f, f.indicators[indicator].indicator_table)
    IN  [f EXCEPT !.tables = copied.tables,
                  !.indicators = Append(@, [indicator_table |-> copied.ref])]

\* State.copy(): a new state with the fields of the old one, a copy of its
\* route list and a copy of its indicator; the new state is the last one of
\* the store.
state_copy(f, ref) ==
    LET s == f.states[ref]
        g == route_indicator_copy(f, s.route_indicator)
    IN  [g EXCEPT
           !.lists = Append(@, f.lists[s.route]),
           !.states = Append(@, [total_distance |-> s.total_distance,
                                 route |-> Len(f.lists) + 1,
                                 route_indicator |-> Len(g.indicators),
                                 current_time |-> s.current_time,
                                 current_station |-> s.current_station,
                                 id_previous_train |-> s.id_previous_train])]

\* Step 4b on the objects: three fields set, the table of the indicator
\* updated in place, the distance added, the row appended to the list.
update_new_state(f, ref, row) ==
    LET s == f.states[ref]
        table == f.indicators[s.route_indicator].indicator_table
    IN  [f EXCEPT
           !.states[ref].current_time = row.Arrival_Int,
           !.states[ref].current_station = row.To,
           !.states[ref].id_previous_train = row.ID,
           !.tables[table] = update_indicator_table(@, row),
           !.states[ref].total_distance = @ + row.Distance_Counted,
           !.lists[s.route] = Append(@, row)]

\* GreedyDFS.__init__, State() and set_initial_state on the objects: state 1
\* is self.best_state = State(), state 2 the initial state.
ForkStart(timetable) ==
    [states |-> <<[total_distance |-> 0, route |-> 1, route_indicator |-> 1,
                   current_time |-> NoTime, current_station |-> NoStation,
                   id_previous_train |-> NoTrain],
                  [total_distance |-> 0, route |-> 2, route_indicator |-> 2,
                   current_time |-> START_TIME, current_station |-> START_STATION,
                   id_previous_train |-> NoTrain]>>,
     lists |-> <<<<>>, <<>>>>,
     indicators |-> <<[indicator_table |-> 1], [indicator_table |-> 2]>>,
     tables |-> <<<<>>, init_indicator_table>>,
     timetable_df |-> timetable,
     stack |-> <<[current_state |-> 2, top_transfers |-> <<>>, k |-> 1,
                  children |-> <<>>,
                  parent_view |-> set_initial_state(State)]>>,
     new_state |-> 0,
     best_state |-> 1,
     best_distance |-> 0,
     best_view |-> State,
     saved |-> <<>>,
     pc |-> "dfs"]

InitFork ==
    /\ branch = BranchIdle
    /\ SearchIdle
    /\ builder = BuilderIdle
    /\ fork \in {ForkStart(timetable) : timetable \in LiveTimetables}

\* The frame of the call of dfs that runs.
Frame == fork.stack[Len(fork.stack)]

\* The stack after the call that runs has returned.
Returned == SubSeq(fork.stack, 1, Len(fork.stack) - 1)

\* dfs(current_state), steps 1 to 3: the options, the return when there
\* are none, the top transfers scored against the current state.
fork_dfs ==
    /\ fork.pc = "dfs"
    /\ LET view == View(fork, Frame.current_state)
           transfer_options ==
               filter_timetable(fork.timetable_df, view.current_station,
                                view.current_time, view.id_previous_train)
       IN  IF transfer_options = <<>>
           THEN fork' = [fork EXCEPT !.stack = Returned,
                                     !.pc = IF Returned = <<>> THEN "done" ELSE "loop"]
           ELSE \E top \in apply_score_function(transfer_options, view) :
                    fork' = [fork EXCEPT
                               !.stack[Len(fork.stack)] =
                                   [current_state |-> Frame.current_state,
                                    top_transfers |-> top, k |-> 1,
                                    children |-> <<>>,
                                    parent_view |-> view],
                               !.pc = "loop"]
    /\ UNCHANGED <<branch, search_vars, builder>>

\* Step 4a: new_state = current_state.copy().
fork_copy ==
    /\ fork.pc = "loop"
    /\ Frame.k <= Len(Frame.top_transfers)
    /\ LET g == state_copy(fork, Frame.current_state)
       IN  fork' = [g EXCEPT !.new_state = Len(g.states),
                             !.stack[Len(fork.stack)].children =
                                 Append(@, Len(g.states)),
                             !.pc = "update"]
    /\ UNCHANGED <<branch, search_vars, builder>>

\* Step 4b: the new state moved along the row.
fork_update ==
    /\ fork.pc = "update"
    /\ fork' = [update_new_state(fork, fork.new_state, Frame.top_transfers[Frame.k])
                    EXCEPT !.pc = "best"]
    /\ UNCHANGED <<branch, search_vars, builder>>

\* Step 4c, the test and its first assignment:
\* self.best_distance = new_state.total_distance.
fork_best ==
    /\ fork.pc = "best"
    /\ LET better == fork.states[fork.new_state].total_distance > fork.best_distance
       IN  fork' = [fork EXCEPT
                      !.best_distance =
                          IF better THEN fork.states[fork.new_state].total_distance
                          ELSE @,
                      !.pc = IF better THEN "best_state" ELSE "recurse"]
    /\ UNCHANGED <<branch, search_vars, builder>>

\* Step 4c, the second assignment: self.best_state = new_state.copy().
fork_best_state ==
    /\ fork.pc = "best_state"
    /\ LET g == state_copy(fork, fork.new_state)
       IN  fork' = [g EXCEPT !.best_state = Len(g.states),
                             !.best_view = View(fork, fork.new_state),
                             !.pc = "recurse"]
    /\ UNCHANGED <<branch, search_vars, builder>>

\* Step 4d: self.dfs(new_state).
fork_recurse ==
    /\ fork.pc = "recurse"
    /\ fork' = [fork EXCEPT
                  !.stack = Append([@ EXCEPT ![Len(fork.stack)].k = @ + 1],
                                   [current_state |-> fork.new_state,
                                    top_transfers |-> <<>>, k |-> 1,
                                    children |-> <<>>,
                                    parent_view |-> View(fork, fork.new_state)]),
                  !.pc = "dfs"]
    /\ UNCHANGED <<branch, search_vars, builder>>

\* The end of the loop over the top transfers: dfs returns.
fork_return ==
    /\ fork.pc = "loop"
    /\ Frame.k > Len(Frame.top_transfers)
    /\ fork' = [fork EXCEPT !.stack = Returned,
                            !.pc = IF Returned = <<>> THEN "done" ELSE "loop"]
    /\ UNCHANGED <<branch, search_vars, builder>>

\* What _save_best_route writes: the best distance in the name of the file
\* and the route of the best state in it.
Persisted(f) ==
    <<[best_distance |-> f.best_distance, route |-> View(f, f.best_state).route]>>

\* run_greedy_dfs after the first call of dfs has returned: _save_best_route.
fork_save_best_route ==
    /\ fork.pc = "done"
    /\ fork' = [fork EXCEPT !.saved = Persisted(fork), !.pc = "saved"]
    /\ UNCHANGED <<branch, search_vars, builder>>

NextFork ==
    \/ fork_dfs \/ fork_copy \/ fork_update \/ fork_best \/ fork_best_state
    \/ fork_recurse \/ fork_return \/ fork_save_best_route

SpecFork == InitFork /\ [][NextFork]_vars

\* _handle_interrupt: the handler of SIGINT runs between any two statements
\* of the main thread; it saves the best route and exits.
fork_handle_interrupt ==
    /\ fork.pc \in {"dfs", "loop", "update", "best", "best_state", "recurse", "done"}
    /\ fork' = [fork EXCEPT !.saved = Persisted(fork), !.pc = "interrupted"]
    /\ UNCHANGED <<branch, search_vars, builder>>

NextForkInterrupt == NextFork \/ fork_handle_interrupt

SpecForkInterrupt == InitFork /\ [][NextForkInterrupt]_vars

(***************************************************************************)
(* Properties of the ledger along a branch.                                *)
(***************************************************************************)

\* The legs of the branch (by position) that run over section s.
TraversalsOf(s) == {i \in 1..Len(branch.route) : s \in Underlying(branch.route[i])}

\* The legs of the branch for which section s counted.
CreditsOf(s) == {i \in 1..Len(branch.route) : s \in branch.credited[i]}

\* How many legs of a type ran over section s before position i.
NDriven(s, type, i) ==
    Cardinality({j \in TraversalsOf(s) : j < i /\ branch.route[j].Type = type})

\* How many legs of a type ran over section s in the whole branch.
NDrivenNow(s, type) == NDriven(s, type, Len(branch.route) + 1)

\* The sum of the neighbour distances of a set of sections.
RECURSIVE SumSections(_)
SumSections(ss) ==
    IF ss = {} THEN 0
    ELSE LET s == CHOOSE x \in ss : TRUE
             a == CHOOSE x \in s : TRUE
             b == CHOOSE x \in s : x /= a
         IN  station_distances[a][b] + SumSections(ss \ {s})

C2_SprinterCountsUntilTwoTraversals ==
    \A row \in Legs :
        row.Type = "Spr" =>
            get_distance_counted(branch.route_indicator, row.Station, row.To,
                                 row.Type, row.Distance)
            = (IF Cardinality(TraversalsOf({row.Station, row.To})) < 2
               THEN row.Distance ELSE 0)

\* C3 (amended): an intercity leg counts the distances of exactly those hops
\* of its intermediate path that no intercity ran over yet and at most one
\* sprinter ran over.
C3_IntercityCountsUndrivenHops ==
    \A row \in Legs :
        row.Type = "Int" =>
            get_distance_counted(branch.route_indicator, row.Station, row.To,
                                 row.Type, row.Distance)
            = SumSections({s \in Underlying(row) :
                              /\ NDrivenNow(s, "Int") = 0
                              /\ NDrivenNow(s, "Spr") <= 1})

\* C3 (as claimed): an intercity leg counts the distances of exactly the hops
\* no intercity ran over yet, however often sprinters ran over them.
C3_IndependentOfSprinters ==
    \A row \in Legs :
        row.Type = "Int" =>
            get_distance_counted(branch.route_indicator, row.Station, row.To,
                                 row.Type, row.Distance)
            = SumSections({s \in Underlying(row) : NDrivenNow(s, "Int") = 0})

\* An intercity leg was taken of which one hop counted after one sprinter,
\* and another hop, which no intercity had driven, did not count after two.
C3_Witness ==
    \E i \in 1..Len(branch.route) :
        /\ branch.route[i].Type = "Int"
        /\ \E s \in branch.credited[i] : NDriven(s, "Spr", i) = 1
        /\ \E s \in Underlying(branch.route[i]) \ branch.credited[i] :
               NDriven(s, "Int", i) = 0 /\ NDriven(s, "Spr", i) = 2

\* C4 (as claimed): between two neighbours the first two legs over their
\* section count in full, whatever their types.
C4_FirstTwoCountOnDirectSection ==
    \A i \in 1..Len(branch.route) :
        LET row == branch.route[i]
            s == {row.Station, row.To}
            earlier == {j \in TraversalsOf(s) : j < i}
        IN  (/\ Adjacent(row.Station, row.To)
             /\ Cardinality(earlier) < 2
             /\ \A j \in earlier : {branch.route[j].Station, branch.route[j].To} = s)
            => row.Distance_Counted = row.Distance

\* C5 (as claimed): recording a leg appends one mark of its type to the cell
\* of each of its sections, in both directions, and changes no other cell.
C5_RecordMarksUnderlyingOnce ==
    [][Len(branch'.route) = Len(branch.route) + 1 =>
        LET row == branch'.route[Len(branch'.route)]
        IN  \A p \in Stations \X Stations :
                branch'.route_indicator[p]
                = IF {p[1], p[2]} \in Underlying(row)
                  THEN Append(branch.route_indicator[p], TYPE_CONVERSION[row.Type])
                  ELSE branch.route_indicator[p]]_vars

\* The position of leg i among the legs over section s.
Rank(s, i) == Cardinality({j \in TraversalsOf(s) : j <= i})

\* Whether every leg over section s has the same type.
SingleType(s) ==
    \A i \in TraversalsOf(s), j \in TraversalsOf(s) :
        branch.route[i].Type = branch.route[j].Type

\* What legs of one type over one section count: the first `times` of them.
CountsFirst(s, times) ==
    \A i \in TraversalsOf(s) :
        /\ (s \in branch.credited[i]) <=> (Rank(s, i) <= times)
        /\ Underlying(branch.route[i]) = {s} =>
               branch.route[i].Distance_Counted
               = (IF Rank(s, i) <= times THEN branch.route[i].Distance ELSE 0)

C6_WitnessSprinters ==
    \E s \in AdjacentSections :
        /\ SingleType(s)
        /\ Cardinality(TraversalsOf(s)) >= 3
        /\ \A i \in TraversalsOf(s) : branch.route[i].Type = "Spr"


(***************************************************************************)
(* Properties of the routes the two algorithms produce.                    *)
(***************************************************************************)

\* The states a run holds: the one passed to dfs or explored, those of the
\* calls in progress, those on the queue, and the best state.
LiveStates ==
    {arg, best_state}
        \cup {stack[i].current_state : i \in 1..Len(stack)}
        \cup {priority_queue[i].state : i \in 1..Len(priority_queue)}

\* The routes of these states, and the route that was saved.
ProducedRoutes ==
    {s.route : s \in LiveStates} \cup {saved[i].route : i \in 1..Len(saved)}

\* The route that was saved, <<>> before.
SavedRoute == IF saved = <<>> THEN <<>> ELSE saved[1].route

\* C7: in every produced route, two consecutive legs of different service
\* ids are between the minimum and the maximum transfer time apart, and two
\* consecutive legs of one service id are between zero and the maximum
\* transfer time apart.
C7_TransferWindowKept ==
    \A route \in ProducedRoutes : \A i \in 1..(Len(route) - 1) :
        LET current == route[i]
            next_train == route[i + 1]
            transfer == next_train.Departure_Int - current.Arrival_Int
        IN  IF next_train.ID /= current.ID
            THEN MIN_TRANSFER_TIME <= transfer /\ transfer <= MAX_TRANSFER_TIME
            ELSE 0 <= transfer /\ transfer <= MAX_TRANSFER_TIME

\* A saved route that stays on one train with less than the minimum transfer
\* time, and changes trains elsewhere.
C7_Witness ==
    /\ \E i \in 1..(Len(SavedRoute) - 1) :
           /\ SavedRoute[i + 1].ID = SavedRoute[i].ID
           /\ SavedRoute[i + 1].Departure_Int - SavedRoute[i].Arrival_Int
                  < MIN_TRANSFER_TIME
    /\ \E i \in 1..(Len(SavedRoute) - 1) : SavedRoute[i + 1].ID /= SavedRoute[i].ID

\* C8: in every produced route each leg ends where the next one starts, and
\* the first leg starts at the start station.
C8_LegsChained ==
    \A route \in ProducedRoutes :
        /\ \A i \in 1..(Len(route) - 1) : route[i].To = route[i + 1].Station
        /\ route /= <<>> => route[1].Station = START_STATION

\* A saved route of three legs or more.
C8_Witness == Len(SavedRoute) >= 3

\* Whether a row is one the query for a state is to return.
Eligible(row, s) ==
    /\ row.Station = s.current_station
    /\ row.Departure_Int <= s.current_time + MAX_TRANSFER_TIME
    /\ row.Arrival_Int <= END_TIME
    /\ \/ row.Departure_Int >= s.current_time + MIN_TRANSFER_TIME
       \/ (row.Departure_Int >= s.current_time /\ row.ID = s.id_previous_train)

\* The positions of the timetable rows the query for a state is to return.
EligiblePositions(s) ==
    {i \in 1..Len(timetable_df) : Eligible(timetable_df[i], s)}

\* What the query returns for a state.
QueryResult(s) ==
    filter_timetable(timetable_df, s.current_station, s.current_time,
                     s.id_previous_train)

\* The result of the query for a state is exactly the eligible rows, each
\* once, in departure order; with no previous train only the window from
\* the minimum to the maximum transfer time applies.
QueryExact(s) ==
    LET result == QueryResult(s)
    IN  /\ {result[i] : i \in 1..Len(result)}
               = {timetable_df[i] : i \in EligiblePositions(s)}
        /\ Len(result) = Cardinality(EligiblePositions(s))
        /\ \A i, j \in 1..Len(result) :
               i < j => result[i].Departure_Int <= result[j].Departure_Int
        /\ s.id_previous_train = NoTrain =>
               \A i \in 1..Len(result) :
                   /\ result[i].Departure_Int >= s.current_time + MIN_TRANSFER_TIME
                   /\ result[i].Departure_Int <= s.current_time + MAX_TRANSFER_TIME

\* C9: the transfer-window query returns exactly the legs from the station
\* that depart no later than now + max_transfer, arrive no later than the
\* end time, and depart at least min_transfer after now or at least now on
\* the previous service; the result is in departure order; a step in which
\* the query runs changes neither the timetable nor the state it was asked
\* for; with no previous service only the window [now + min_transfer,
\* now + max_transfer] applies.
C9_QueryExactAndPure ==
    /\ [](\A s \in LiveStates : s.current_station /= NoStation => QueryExact(s))
    /\ [][/\ timetable_df' = timetable_df
          /\ pc \in {"dfs", "explore"} => arg' = arg]_vars

\* A query answered for a state that just left a train: a leg of that train
\* departing within the minimum transfer time is returned, a leg of another
\* train departing within it is not, and the state is the initial one in
\* another query of the same run.
C9_Witness ==
    /\ pc = "loop"
    /\ stack /= <<>>
    /\ LET s == stack[Len(stack)].current_state
           result == QueryResult(s)
       IN  /\ \E i \in 1..Len(result) :
                  result[i].Departure_Int < s.current_time + MIN_TRANSFER_TIME
           /\ \E i \in 1..Len(timetable_df) :
                  /\ timetable_df[i].Station = s.current_station
                  /\ timetable_df[i].Departure_Int >= s.current_time
                  /\ timetable_df[i].Departure_Int < s.current_time + MIN_TRANSFER_TIME
                  /\ ~Eligible(timetable_df[i], s)
    /\ stack[1].current_state.id_previous_train = NoTrain
    /\ \E i \in 1..Len(timetable_df) :
           /\ timetable_df[i].Station = START_STATION
           /\ timetable_df[i].Departure_Int > START_TIME + MAX_TRANSFER_TIME
           /\ timetable_df[i].Arrival_Int <= END_TIME

\* C10: every leg of a produced route departs no earlier than the start
\* time, arrives no later than the end time, and departs before it arrives.
C10_LegsWithinRun ==
    \A route \in ProducedRoutes : \A i \in 1..Len(route) :
        /\ route[i].Departure_Int >= START_TIME
        /\ route[i].Arrival_Int <= END_TIME
        /\ route[i].Departure_Int < route[i].Arrival_Int

\* A saved route from whose last station a train leaves within the transfer
\* window that arrives after the end time.
C10_Witness ==
    /\ SavedRoute /= <<>>
    /\ \E i \in 1..Len(timetable_df) :
           LET row == timetable_df[i]
               last == SavedRoute[Len(SavedRoute)]
           IN  /\ row.Station = last.To
               /\ row.Departure_Int >= last.Arrival_Int + MIN_TRANSFER_TIME
               /\ row.Departure_Int <= last.Arrival_Int + MAX_TRANSFER_TIME
               /\ row.Arrival_Int > END_TIME


\* The clock of the state a leg of a route was chosen from: the start time
\* for the first leg, the arrival of the leg before for the others.
ClockBefore(route, i) ==
    IF i = 1 THEN START_TIME ELSE route[i - 1].Arrival_Int

\* C11: every leg of a produced route records as Current_Time the clock of
\* the state it was chosen from (the start time for the first leg), its
\* Waiting_Time is its departure minus that clock and is not negative, and
\* its Distance_Counted and Score are not negative.
C11_LegStatistics ==
    \A route \in ProducedRoutes : \A i \in 1..Len(route) :
        /\ route[i].Current_Time = ClockBefore(route, i)
        /\ route[i].Waiting_Time = route[i].Departure_Int - route[i].Current_Time
        /\ route[i].Waiting_Time >= 0
        /\ route[i].Distance_Counted >= 0
        /\ route[i].Score.num >= 0
        /\ route[i].Score.den > 0

\* A saved route with a leg taken without waiting and a later leg waited
\* for, in a run that also made a route with a leg that counts no distance.
C11_Witness ==
    /\ \E i \in 1..Len(SavedRoute) : SavedRoute[i].Waiting_Time = 0
    /\ \E i \in 2..Len(SavedRoute) : SavedRoute[i].Waiting_Time > 0
    /\ \E route \in ProducedRoutes : \E i \in 1..Len(route) :
           route[i].Distance_Counted = 0


\* C12: at every point of a run the best distance is the greatest total
\* distance of the states made so far (0 when none is positive) and is the
\* distance of the best state; the best state is replaced only by a state
\* of strictly greater distance, so the best distance never decreases and a
\* state of equal distance leaves the best state as it was.
C12_BestIsMaximum ==
    /\ [](/\ best_distance = max_generated
          /\ best_state.total_distance = best_distance)
    /\ [][/\ best_distance' >= best_distance
          /\ best_state' /= best_state => best_distance' > best_distance]_vars

\* A state was made whose distance equals the best distance and whose route
\* is not that of the best state, after the best state was replaced.
C12_Witness ==
    /\ best_distance > 0
    /\ arg.total_distance = best_distance
    /\ arg.route /= best_state.route


\* The smaller of two numbers.
Min(a, b) == IF a <= b THEN a ELSE b

\* A turn of the loop of run_explore_set that ran through: the state taken
\* was on the queue with a distance no state on the queue exceeds, and the
\* queue lost it and gained its children, one for each top transfer.
ExpandsBest ==
    (algo = "explore_set" /\ pc = "queue" /\ pc' = "queue") =>
        /\ \E i \in 1..Len(priority_queue) : priority_queue[i].state = arg'
        /\ \A i \in 1..Len(priority_queue) :
               arg'.total_distance >= priority_queue[i].state.total_distance
        /\ Len(priority_queue')
               = Len(priority_queue) - 1 + Min(TOP_K, Len(QueryResult(arg')))
        /\ \A i \in 1..Len(priority_queue') :
               \/ \E j \in 1..Len(priority_queue) :
                      priority_queue[j] = priority_queue'[i]
               \/ /\ Len(priority_queue'[i].state.route) = Len(arg'.route) + 1
                  /\ SubSeq(priority_queue'[i].state.route, 1, Len(arg'.route))
                         = arg'.route

\* C13: the loop of run_explore_set always takes a state of greatest
\* distance on the queue, puts every child on the queue, and the run stops
\* only with an empty queue, so that every state made is explored.
C13_BestFirstExpandsAll ==
    /\ []((algo = "explore_set" /\ pc \in {"done", "crashed"})
             => priority_queue = <<>>)
    /\ [][ExpandsBest]_vars


\* ExploreSet stands between two calls of explore_state, or is through,
\* after as many calls as GreedyDFS made calls of dfs at some point.
TruncationPoint ==
    /\ algo = "explore_set"
    /\ pc \in {"queue", "done"}
    /\ iterations \in 1..Len(greedy_best)

\* C14 as stated: after any equal number of expansions on one timetable the
\* best distance of ExploreSet is at least that of GreedyDFS.
C14_BestFirstNeverBehind ==
    TruncationPoint => best_distance >= greedy_best[iterations]

\* C14, for the first expansion: after the first call of explore_state the
\* best distance of ExploreSet is at least the best distance GreedyDFS has
\* after its first call of dfs (before its second); ExploreSet has then
\* made every top transfer of the initial state, GreedyDFS the first.
C14_NotBehindAfterFirstExpansion ==
    (/\ algo = "explore_set"
     /\ iterations = 1
     /\ Len(greedy_best) >= 1) => best_distance >= greedy_best[1]

\* After the first call of explore_state the best distance of ExploreSet is
\* greater than that of GreedyDFS after its first call of dfs.
C14_Witness ==
    /\ algo = "explore_set"
    /\ pc = "queue"
    /\ iterations = 1
    /\ Len(greedy_best) >= 1
    /\ best_distance > greedy_best[1]
    /\ greedy_best[1] > 0


\* No call of dfs in progress has top transfers left to take.
NoExpansionUnfinished ==
    \A i \in 1..Len(stack) : stack[i].i > Len(stack[i].top_transfers)

\* C16: an interrupt saves the best state of that moment and stops the run,
\* nothing is explored afterwards, and the interrupt is acted on only between
\* two expansions, never while one is in progress.
C16_InterruptBetweenExpansions ==
    /\ [][(pc /= "interrupted" /\ pc' = "interrupted") =>
            /\ saved' = <<[best_distance |-> best_distance',
                           route |-> best_state'.route]>>
            /\ UNCHANGED <<stack, priority_queue, iterations, best_distance,
                           best_state>>
            /\ NoExpansionUnfinished]_vars
    /\ [][pc = "interrupted" => UNCHANGED vars]_vars


\* Along every route the clock strictly increases and stays within the end
\* time.
ClockIncreases ==
    \A route \in ProducedRoutes : \A i \in 1..Len(route) :
        /\ route[i].Arrival_Int > ClockBefore(route, i)
        /\ route[i].Arrival_Int <= END_TIME

\* C15: on a timetable whose legs all arrive after they depart the clock
\* strictly increases along every branch and never exceeds the end time,
\* and the search comes to its end: GreedyDFS returns from its first call,
\* ExploreSet empties its queue (or an interrupt stops the run).
C15_SearchTerminates ==
    /\ []ClockIncreases
    /\ <>(\/ pc = "interrupted"
          \/ (pc = "done" /\ stack = <<>> /\ priority_queue = <<>>))

\* The part of C15 about GreedyDFS alone.
GreedyTerminates ==
    /\ []ClockIncreases
    /\ ((algo = "greedy_dfs") => <>(pc \in {"done", "interrupted"}))


\* No row of the timetable is eligible from the start station at the start
\* time.
NoStartLeg == QueryResult(set_initial_state(State)) = <<>>

\* What _save_best_route writes when the best state was never replaced.
TrivialRoute == <<[best_distance |-> 0, route |-> <<>>]>>

\* C17: when no leg is eligible from the start station at the start time the
\* search ends after one expansion, the best distance is zero and the best
\* route empty, and that route is saved all the same.
C17_TrivialRouteSaved ==
    /\ [](NoStartLeg =>
            /\ iterations <= 1
            /\ best_distance = 0
            /\ best_state.route = <<>>
            /\ saved \in {<<>>, TrivialRoute})
    /\ (NoStartLeg => <>(saved = TrivialRoute))

(***************************************************************************)
(* Properties of the distance graph builder.                               *)
(***************************************************************************)

\* The station lists without repetition that lead from a to b along the
\* sections of a graph.
WalksBetween(graph, a, b) ==
    {w \in UNION {[1..n -> Stations] : n \in 2..Cardinality(Stations)} :
        /\ w[1] = a
        /\ w[Len(w)] = b
        /\ \A i, j \in DOMAIN w : i /= j => w[i] /= w[j]
        /\ \A i \in 1..(Len(w) - 1) : <<w[i], w[i + 1]>> \in DOMAIN graph}

\* The sum of the sections of a station list.
RECURSIVE WalkLength(_, _)
WalkLength(graph, w) ==
    IF Len(w) < 2 THEN 0
    ELSE graph[<<w[1], w[2]>>] + WalkLength(graph, Tail(w))

\* The pairs of the timetable the loop has been through.
ProcessedPairs ==
    {builder.unique_pairs[k] : k \in 1..(builder.i - 1)}

\* A pair that is no section of the neighbour graph but connected in it.
ConnectedIndirectly(p) ==
    /\ p \notin DOMAIN builder.graph
    /\ WalksBetween(builder.graph, p[1], p[2]) /= {}

\* C18: every processed timetable pair (a, b) that is no direct section but
\* connected in the neighbour graph has as its recorded distance the length
\* of a shortest way from a to b, and as its recorded path a station list
\* from a to b along sections of the neighbour graph of exactly that length.
C18_ShortestPathRecorded ==
    \A p \in ProcessedPairs :
        ConnectedIndirectly(p) =>
            /\ p \in DOMAIN builder.distances
            /\ \A w \in WalksBetween(builder.graph, p[1], p[2]) :
                   builder.distances[p] <= WalkLength(builder.graph, w)
            /\ p \in DOMAIN builder.intermediate_stations
            /\ builder.intermediate_stations[p]
                   \in WalksBetween(builder.graph, p[1], p[2])
            /\ WalkLength(builder.graph, builder.intermediate_stations[p])
                   = builder.distances[p]

\* The pass over a timetable holding A-C on the unit sections A-B and B-C
\* is over, with the path A, B, C of length 2.
C18_Witness ==
    /\ builder.pc = "done"
    /\ builder.graph = Graph({<<"A", "B">>, <<"B", "C">>})
    /\ <<"A", "C">> \in ProcessedPairs
    /\ builder.intermediate_stations[<<"A", "C">>] = <<"A", "B", "C">>
    /\ builder.distances[<<"A", "C">>] = 2

\* The loop of enhance_distances_dict has been through every pair.
PassOver == builder.pc /= "idle" /\ builder.i > Len(builder.unique_pairs)

\* Two station lists of which each is the other read backwards.
Mirrored(v, w) ==
    /\ Len(v) = Len(w)
    /\ \A i \in 1..Len(v) : v[i] = w[Len(w) + 1 - i]

\* C19: after the enhancement pass the distance of (a, b) equals the one of
\* (b, a) for every pair of the distance graph, and the path of (a, b) is
\* the reverse of the path of (b, a) for every pair of the path table.
C19_DistancesAndPathsMirrored ==
    PassOver =>
        /\ \A p \in DOMAIN builder.distances :
               /\ <<p[2], p[1]>> \in DOMAIN builder.distances
               /\ builder.distances[<<p[2], p[1]>>] = builder.distances[p]
        /\ \A p \in DOMAIN builder.intermediate_stations :
               /\ <<p[2], p[1]>> \in DOMAIN builder.intermediate_stations
               /\ Mirrored(builder.intermediate_stations[<<p[2], p[1]>>],
                           builder.intermediate_stations[p])

\* A pass is over that went through a pair and then its reverse, and found
\* a path over more than two stations for it.
C19_Witness ==
    /\ PassOver
    /\ \E k \in 2..Len(builder.unique_pairs) :
           /\ builder.unique_pairs[k]
                  = <<builder.unique_pairs[k - 1][2], builder.unique_pairs[k - 1][1]>>
           /\ Len(builder.intermediate_stations[builder.unique_pairs[k]]) > 2
           /\ builder.distances[builder.unique_pairs[k]] < Inf

\* A pair of stations between which the neighbour graph has no way.
Unreachable(p) ==
    /\ p \notin DOMAIN builder.graph
    /\ WalksBetween(builder.graph, p[1], p[2]) = {}

\* C20: a processed timetable pair without a way in the neighbour graph gets
\* neither a distance nor a path and raises no error in the enhancement
\* pass; the lookup of add_distances is what fails for it.
C20_UnreachablePairUnrecorded ==
    \A p \in ProcessedPairs :
        Unreachable(p) =>
            /\ p \notin DOMAIN builder.distances
            /\ p \notin DOMAIN builder.intermediate_stations
            /\ builder.pc = "KeyError" => builder.unique_pairs[builder.i - 1] /= p
            /\ builder.pc /= "done"

(***************************************************************************)
(* Properties of the ledger on a row of an unknown type.                   *)
(***************************************************************************)

\* C21: update_indicator_table and get_distance_counted called with a type
\* that is no key of TYPE_CONVERSION end in a ValueError, and the call
\* leaves the table, the route and the station of the branch as they were.
C21_UnknownTypeFailsFast ==
    [][(branch'.last_call /= branch.last_call
            /\ branch'.last_call.Type \notin {"Spr", "Int"})
        => /\ branch'.last_call.result = "ValueError"
           /\ branch'.route_indicator = branch.route_indicator
           /\ branch'.route = branch.route
           /\ branch'.current_station = branch.current_station]_vars

\* update_indicator_table failed on a row of an unknown type after legs
\* had been recorded.
C21_Witness ==
    /\ branch.last_call.op = "update_indicator_table"
    /\ branch.last_call.Type = UnknownType
    /\ branch.last_call.result = "ValueError"
    /\ Len(branch.route) >= 2

\* What a query for a pair gives on a graph: the path of search after
\* construct_paths from the first station of the pair.
QueryOver(graph, p) == search(construct_paths(graph, p[1]), p[1], p[2]).path

\* The loop goes through a pair that has no distance yet, and both of its
\* stations are keys of the graph.
Queried(p) ==
    /\ builder.pc = "enhance"
    /\ builder.i <= Len(builder.unique_pairs)
    /\ p = builder.unique_pairs[builder.i]
    /\ p \notin DOMAIN builder.distances
    /\ builder'.pc = "enhance"

C23_ForkIndependent ==
    /\ [](fork.pc /= "idle" =>
            /\ \A i \in DOMAIN fork.stack :
                   View(fork, fork.stack[i].current_state) = fork.stack[i].parent_view
            /\ fork.pc = "update" => View(fork, fork.new_state) = Frame.parent_view
            /\ fork.pc = "best" =>
                   View(fork, fork.new_state)
                       = take_transfer(Frame.parent_view, Frame.top_transfers[Frame.k])
            /\ View(fork, fork.best_state) = fork.best_view)
    /\ [][\A ref \in DOMAIN fork.states :
             \/ fork.pc = "update" /\ ref = fork.new_state
             \/ View(fork', ref) = View(fork, ref)]_vars

\* The second child of the initial state was made and updated after the
\* whole subtree of the first child had been searched and a best state had
\* been stored.
C23_Witness ==
    /\ fork.pc = "best"
    /\ Len(fork.stack) = 1
    /\ Frame.k = 2
    /\ Len(fork.states) >= 7
    /\ fork.best_distance > 0
    /\ Len(View(fork, fork.new_state).route) = 1
    /\ Len(fork.best_view.route) >= 2

\* The calls of dfs on the stack that have their top transfers.
Expanded ==
    {i \in DOMAIN fork.stack : i < Len(fork.stack) \/ fork.pc /= "dfs"}

\* The rows a state may take: the result of the query for its station,
\* clock and train.
Candidates(view) ==
    filter_timetable(fork.timetable_df, view.current_station,
                     view.current_time, view.id_previous_train)

\* Whether row q scores strictly higher than row r for a state: counted
\* distance over waiting time plus travel time, by the ledger and the
\* clock of the state.
ScoresHigher(q, r, view) ==
    get_distance_counted(view.route_indicator, q.Station, q.To, q.Type, q.Distance)
            * ((r.Departure_Int - view.current_time) + r.Duration)
        > get_distance_counted(view.route_indicator, r.Station, r.To, r.Type, r.Distance)
            * ((q.Departure_Int - view.current_time) + q.Duration)

RECURSIVE SumCounted(_)
SumCounted(route) ==
    IF route = <<>> THEN 0
    ELSE route[1].Distance_Counted + SumCounted(Tail(route))

\* C25: whenever the best route is saved, at the end of the run or by an
\* interrupt between any two statements, the best distance saved equals the
\* sum of the counted distances of the legs of the route saved.
C25_SavedDistanceIsOfSavedRoute ==
    fork.saved /= <<>> =>
        fork.saved[1].best_distance = SumCounted(fork.saved[1].route)

(***************************************************************************)
(* Properties of the queue of ExploreSet on equal distances.               *)
(***************************************************************************)

\* The run of ExploreSet ended in the KeyError of a station without rows.
CrashedOnStation ==
    pc = "crashed" /\ arg.current_station \notin TimetableStations

\* C26: a new state whose distance equals that of a state on the queue is
\* put on the queue without an error and both stay on it until they are
\* taken: no run of ExploreSet ends in an error of the queue.
C26_TiePushSucceeds ==
    (algo = "explore_set" /\ pc = "crashed") => CrashedOnStation

(***************************************************************************)
(* GreedyDFS and ExploreSet run to their end on one timetable.             *)
(***************************************************************************)

\* C27: on one timetable ExploreSet ends with the best distance GreedyDFS
\* ended with, after as many calls of explore_state as GreedyDFS made calls
\* of dfs: one call for every state either of them makes.
C27_SameStatesSameBest ==
    (/\ algo = "explore_set"
     /\ pc \in {"done", "crashed"}
     /\ greedy_best /= <<>>)
        => /\ best_distance = greedy_best[Len(greedy_best)]
           /\ iterations = Len(greedy_best)

(***************************************************************************)
(* The fields of a search state against its route.                         *)
(***************************************************************************)

\* The table after the legs of a route were recorded in order on an empty
\* table.
RECURSIVE Replayed(_)
Replayed(route) ==
    IF route = <<>> THEN init_indicator_table
    ELSE update_indicator_table(Replayed(SubSeq(route, 1, Len(route) - 1)),
                                route[Len(route)])

\* The search states of a run: those of LiveStates but the State() that
\* stands for the best state until a first state is better.
SearchStates == LiveStates \ {State}

\* C28: in every search state the distance is the sum of the counted
\* distances of the legs of its route, the clock, the station and the train
\* are the arrival, the destination and the id of its last leg (the start
\* time, the start station and no train for an empty route), and the table
\* is the one the legs of the route give when recorded in order on an empty
\* table.
C28_StateMatchesRoute ==
    \A s \in SearchStates :
        /\ s.total_distance = SumCounted(s.route)
        /\ IF s.route = <<>>
           THEN /\ s.current_time = START_TIME
                /\ s.current_station = START_STATION
                /\ s.id_previous_train = NoTrain
           ELSE LET last == s.route[Len(s.route)]
                IN  /\ s.current_time = last.Arrival_Int
                    /\ s.current_station = last.To
                    /\ s.id_previous_train = last.ID
        /\ s.route_indicator = Replayed(s.route)

\* A state of three legs of which one counted for less than its distance
\* is on the queue of ExploreSet or belongs to a call of dfs in progress.
C28_Witness ==
    \E s \in {priority_queue[i].state : i \in 1..Len(priority_queue)}
                 \cup {stack[i].current_state : i \in 1..Len(stack)} :
        /\ Len(s.route) >= 3
        /\ \E i \in 1..Len(s.route) : s.route[i].Distance_Counted < s.route[i].Distance

(***************************************************************************)
(* The recorded paths against the neighbour graph.                         *)
(***************************************************************************)

\* C29: every two consecutive stations of every recorded path are a section
\* of the neighbour graph as loaded, and the sections of the path sum to
\* the distance recorded for the pair, which is what get_distance_counted
\* gives for an intercity over the path on an empty table.
C29_PathHopsAreSections ==
    \A p \in DOMAIN builder.intermediate_stations :
        LET path == builder.intermediate_stations[p]
        IN  /\ \A i \in 1..(Len(path) - 1) :
                   <<path[i], path[i + 1]>> \in DOMAIN builder.graph
            /\ p \in DOMAIN builder.distances
            /\ WalkLength(builder.graph, path) = builder.distances[p]

\* C30: no pair ever leaves the path table, and a recorded path is replaced
\* only by a list of strictly more stations; a path over three stations or
\* more is therefore never replaced by the two stations of its pair.
C30_PathOnlyGrows ==
    [][\A p \in DOMAIN builder.intermediate_stations :
          /\ p \in DOMAIN builder'.intermediate_stations
          /\ builder'.intermediate_stations[p] /= builder.intermediate_stations[p]
                 => Len(builder'.intermediate_stations[p])
                        > Len(builder.intermediate_stations[p])
          /\ Len(builder.intermediate_stations[p]) >= 3
                 => Len(builder'.intermediate_stations[p]) /= 2]_vars

\* The loop found a path over four stations for a pair and then went
\* through the reverse of the pair, for which the two stations of the pair
\* were offered: both paths are still the ones over four stations.
C30_Witness ==
    /\ builder.i = 3
    /\ builder.pc = "enhance"
    /\ builder.unique_pairs[2]
           = <<builder.unique_pairs[1][2], builder.unique_pairs[1][1]>>
    /\ builder.unique_pairs[1] \notin DOMAIN builder.graph
    /\ Len(builder.intermediate_stations[builder.unique_pairs[1]]) = 4
    /\ Len(builder.intermediate_stations[builder.unique_pairs[2]]) = 4

====
